---------------------------- MODULE Spec2Model ----------------------------
(***************************************************************************)
(* Library Management System (exercises/src/project.py).                   *)
(*                                                                         *)
(* A registry of books and borrowers, mutated by add_book, add_borrower,   *)
(* checkout_book and return_book, and written to two JSON documents after  *)
(* every mutating call.                                                    *)
(*                                                                         *)
(* Python strings that the program computes with (identifiers) are         *)
(* sequences of one-character strings; strings it only stores and compares *)
(* (title, author, genre, name, email) are TLA+ strings.  A dict is a      *)
(* function; a list is a sequence.                                         *)
(***************************************************************************)
EXTENDS Integers, Sequences, FiniteSets, TLC

VARIABLES
    books,      \* Library.books: book_id -> Book
    borrowers,  \* Library.borrowers: borrower_id -> Borrower
    fs,         \* the data directory: the two JSON documents
    call,       \* the last call made on the library and how it ended
    prev,       \* history: Library.books / Library.borrowers before that call
    round_trip, \* history: the last call is return_book(b, u) and the call
                \* before it was a successful checkout_book(b, u)
    gen,        \* a call of generate_id on its own: prefix, existing_ids, result
    query,      \* a call of search_books: criteria, result
    pc          \* where the call being executed stands: "idle" between calls

vars == <<books, borrowers, fs, call, prev, round_trip, gen, query, pc>>

---------------------------------------------------------------------------
(* Bounds of the model *)

\* Books the registry may hold.  Four lets a borrower at the limit of three
\* ask for a fourth.
MaxBooks == 4
\* Borrowers the registry may hold, kept at half the books: two are what
\* "another borrower" needs
MaxBorrowers == MaxBooks \div 2
\* Length of the existing_ids list handed to generate_id on its own
MaxIds == 2
\* Books of a registry found on disk when the library is opened
MaxDocBooks == 3
\* Books, and borrowers, of the library whose calls are followed statement
\* by statement through save
MaxStepBooks == 2
\* Books of a registry that is searched, and fields in the criteria
MaxSearchBooks == 2
MaxCriteria == 2

(* Program constants *)

MAX_BOOKS == 3
GENRES == {"Fiction", "Non-Fiction", "Science", "History", "Technology"}

(* Inputs of the calls *)

Titles == {"Dune"}
Authors == {"Herbert"}
GenreInputs == {"Fiction", "Poetry"}
Names == {"Joe"}
Emails == {"j@x.com"}

BOOK == <<"B", "O", "O", "K">>
USER == <<"U", "S", "E", "R">>

---------------------------------------------------------------------------
(* Python built-ins on strings and integers *)

DigitChars == <<"0", "1", "2", "3", "4", "5", "6", "7", "8", "9">>

\* str(n) for n >= 0: the decimal digits of n
RECURSIVE str(_)
str(n) ==
    IF n < 10 THEN <<DigitChars[n + 1]>>
    ELSE str(n \div 10) \o <<DigitChars[(n % 10) + 1]>>

\* f"{n}": the number without padding
format_no_padding(n) == str(n)

\* f"{n:04d}" for n >= 0: zero-padded to a width of at least four
format_04d(n) ==
    LET s == str(n)
    IN  IF Len(s) >= 4 THEN s ELSE [i \in 1..(4 - Len(s)) |-> "0"] \o s

\* int(s) for a non-empty string of decimal digits
RECURSIVE int(_)
int(s) ==
    LET d == CHOOSE k \in 0..9 : DigitChars[k + 1] = s[Len(s)]
    IN  IF Len(s) = 1 THEN d ELSE 10 * int(SubSeq(s, 1, Len(s) - 1)) + d

\* s.split(sep): the list of the pieces of s between occurrences of sep
RECURSIVE split(_, _)
split(s, sep) ==
    IF \A i \in 1..Len(s) : s[i] # sep THEN <<s>>
    ELSE LET i == CHOOSE k \in 1..Len(s) :
                    s[k] = sep /\ \A j \in 1..(k - 1) : s[j] # sep
         IN  <<SubSeq(s, 1, i - 1)>> \o split(SubSeq(s, i + 1, Len(s)), sep)

\* max(numbers) for a non-empty list
max(numbers) ==
    CHOOSE m \in {numbers[i] : i \in 1..Len(numbers)} :
        \A i \in 1..Len(numbers) : numbers[i] <= m

\* list(d.keys()): the keys of a dict as a list
RECURSIVE SetToList(_)
SetToList(S) ==
    IF S = {} THEN <<>>
    ELSE LET x == CHOOSE y \in S : TRUE IN <<x>> \o SetToList(S \ {x})

keys(d) == SetToList(DOMAIN d)

\* Python values whose type the program tests or that it compares across
\* types: a str, a bool or an int
py_str(s) == [type |-> "str", v |-> s]
py_bool(b) == [type |-> "bool", v |-> b]
py_int(n) == [type |-> "int", v |-> n]

\* a == b: a str equals only the same str; bool is a kind of int, with
\* False == 0 and True == 1
py_eq(a, b) ==
    LET num(x) == IF x.type = "bool" THEN (IF x.v THEN 1 ELSE 0) ELSE x.v
    IN  IF a.type = "str" \/ b.type = "str"
        THEN a.type = b.type /\ a.v = b.v
        ELSE num(a) = num(b)

\* str.lower() comparing the strings as they are
lower_identity(s) == s

\* str.lower() on the strings that books and criteria are made of
lower(s) ==
    (("Dune" :> "dune") @@ ("DUNE" :> "dune") @@ ("dune" :> "dune") @@
     ("Emma" :> "emma") @@ ("Herbert" :> "herbert") @@
     ("HERBERT" :> "herbert") @@ ("Fiction" :> "fiction") @@
     ("fiction" :> "fiction") @@ ("Science" :> "science"))[s]

---------------------------------------------------------------------------
(* PART 1: helper functions *)

\* generate_id returning the maximum itself
generate_id_no_increment(prefix, existing_ids) ==
    IF existing_ids = <<>> THEN prefix \o <<"_", "0", "0", "0", "1">>
    ELSE LET numbers == [i \in 1..Len(existing_ids) |->
                            int(split(existing_ids[i], "_")[2])]
             max_num == max(numbers)
         IN  prefix \o <<"_">> \o format_04d(max_num)

generate_id(prefix, existing_ids) ==
    IF existing_ids = <<>> THEN prefix \o <<"_", "0", "0", "0", "1">>
    ELSE LET numbers == [i \in 1..Len(existing_ids) |->
                            int(split(existing_ids[i], "_")[2])]
             max_num == max(numbers)
         IN  prefix \o <<"_">> \o format_04d(max_num + 1)

\* item[key] of a book record with its Python type: available is a bool,
\* the other fields are str
typed(item, key) ==
    IF key = "available" THEN py_bool(item[key]) ELSE py_str(item[key])

\* One pass of the loop over items: whether item matches all criteria
matches(item, criteria) ==
    \A key \in DOMAIN criteria :
        /\ key \in DOMAIN item
        /\ LET item_val == typed(item, key)
               value == criteria[key]
           IN  IF item_val.type = "str" /\ value.type = "str"
               THEN lower(item_val.v) = lower(value.v)
               ELSE py_eq(item_val, value)

search_items(items, criteria) ==
    SelectSeq(items, LAMBDA item : matches(item, criteria))

---------------------------------------------------------------------------
(* PART 2: Book *)

ValueError == [raised |-> "ValueError"]

\* Book.__init__ putting a default genre for one it does not know
Book_coercing(book_id, title, author, genre, available) ==
    [book_id |-> book_id, title |-> title, author |-> author,
     genre |-> IF genre \in GENRES THEN genre ELSE "Fiction",
     available |-> available]

\* Book.__init__
Book(book_id, title, author, genre, available) ==
    IF genre \notin GENRES THEN ValueError
    ELSE [book_id |-> book_id, title |-> title, author |-> author,
          genre |-> genre, available |-> available]

Book_to_dict(self) ==
    [book_id |-> self.book_id, title |-> self.title, author |-> self.author,
     genre |-> self.genre, available |-> self.available]

Book_from_dict(data) ==
    Book(data.book_id, data.title, data.author, data.genre, data.available)

---------------------------------------------------------------------------
(* PART 3: Borrower *)

\* Borrower.__init__
Borrower(borrower_id, name, email, borrowed_books) ==
    [borrower_id |-> borrower_id, name |-> name, email |-> email,
     borrowed_books |-> IF borrowed_books # <<>> THEN borrowed_books ELSE <<>>]

\* can_borrow with <= for <
can_borrow_off_by_one(self) == Len(self.borrowed_books) <= MAX_BOOKS

can_borrow(self) == Len(self.borrowed_books) < MAX_BOOKS

\* borrow_book without the append
borrow_book_forgets(self, book_id) ==
    IF ~can_borrow(self) THEN [self |-> self, ret |-> FALSE]
    ELSE [self |-> self, ret |-> TRUE]

\* Borrower.borrow_book: the borrower afterwards and the value returned
borrow_book(self, book_id) ==
    IF ~can_borrow(self) THEN [self |-> self, ret |-> FALSE]
    ELSE [self |-> [self EXCEPT !.borrowed_books = Append(@, book_id)],
          ret |-> TRUE]

\* list.pop() for list.remove(x)
remove_last(list, x) == SubSeq(list, 1, Len(list) - 1)

\* list.remove(x): the list without its first x
remove(list, x) ==
    LET i == CHOOSE k \in 1..Len(list) :
                list[k] = x /\ \A j \in 1..(k - 1) : list[j] # x
    IN  SubSeq(list, 1, i - 1) \o SubSeq(list, i + 1, Len(list))

contains(list, x) == \E i \in 1..Len(list) : list[i] = x

\* Borrower.return_book: the borrower afterwards and the value returned
Borrower_return_book(self, book_id) ==
    IF contains(self.borrowed_books, book_id)
    THEN [self |-> [self EXCEPT !.borrowed_books = remove(@, book_id)],
          ret |-> TRUE]
    ELSE [self |-> self, ret |-> FALSE]

Borrower_to_dict(self) ==
    [borrower_id |-> self.borrower_id, name |-> self.name,
     email |-> self.email, borrowed_books |-> self.borrowed_books]

Borrower_from_dict(data) ==
    Borrower(data.borrower_id, data.name, data.email, data.borrowed_books)

---------------------------------------------------------------------------
(* PART 4: Library *)

\* A document of the data directory: absent, or holding a JSON object
Absent == [exists |-> FALSE, data |-> <<>>]
Document(data) == [exists |-> TRUE, data |-> data]

\* load with one try block around both documents
load_all_or_nothing(dir) ==
    IF dir.books_file.exists /\ dir.borrowers_file.exists
    THEN [books |->
            [bid \in DOMAIN dir.books_file.data |->
                Book_from_dict(dir.books_file.data[bid])],
          borrowers |->
            [bid \in DOMAIN dir.borrowers_file.data |->
                Borrower_from_dict(dir.borrowers_file.data[bid])]]
    ELSE [books |-> <<>>, borrowers |-> <<>>]

\* Library.load: the books and borrowers read from the data directory
load(dir) ==
    [books |->
        IF dir.books_file.exists
        THEN [bid \in DOMAIN dir.books_file.data |->
                 Book_from_dict(dir.books_file.data[bid])]
        ELSE <<>>,
     borrowers |->
        IF dir.borrowers_file.exists
        THEN [bid \in DOMAIN dir.borrowers_file.data |->
                 Borrower_from_dict(dir.borrowers_file.data[bid])]
        ELSE <<>>]

\* save without the second document
save_books_only(bks, brs) ==
    [books_file |-> Document([bid \in DOMAIN bks |-> Book_to_dict(bks[bid])]),
     borrowers_file |-> fs.borrowers_file]

\* Library.save: the data directory after both documents are rewritten
save(bks, brs) ==
    [books_file |-> Document([bid \in DOMAIN bks |-> Book_to_dict(bks[bid])]),
     borrowers_file |->
        Document([bid \in DOMAIN brs |-> Borrower_to_dict(brs[bid])])]

registry == [books |-> books, borrowers |-> borrowers]

NoGen == [prefix |-> <<>>, existing_ids |-> <<>>, result |-> <<>>]

NoQuery == [criteria |-> <<>>, called |-> FALSE, result |-> <<>>]

NoCall == [op |-> "", args |-> <<>>, ret |-> "", id |-> <<>>]

\* What a call leaves in the history variables
Called(op, args, ret, id) ==
    /\ call' = [op |-> op, args |-> args, ret |-> ret, id |-> id]
    /\ prev' = registry

\* Library.__init__ followed by no call: an empty data directory
Init ==
    /\ fs = [books_file |-> Absent, borrowers_file |-> Absent]
    /\ books = load(fs).books
    /\ borrowers = load(fs).borrowers
    /\ call = NoCall
    /\ prev = [books |-> <<>>, borrowers |-> <<>>]
    /\ round_trip = FALSE
    /\ gen = NoGen
    /\ query = NoQuery
    /\ pc = "idle"

add_book(title, author, genre) ==
    LET book_id == generate_id(BOOK, keys(books))
        book == Book(book_id, title, author, genre, TRUE)
    IN  /\ Cardinality(DOMAIN books) < MaxBooks
        /\ IF book = ValueError
           THEN /\ Called("add_book", <<title, author, genre>>, "ValueError", <<>>)
                /\ UNCHANGED <<books, borrowers, fs>>
           ELSE /\ books' = [bid \in DOMAIN books \cup {book_id} |->
                                IF bid = book_id THEN book ELSE books[bid]]
                /\ fs' = save(books', borrowers)
                /\ Called("add_book", <<title, author, genre>>, "Book", book_id)
                /\ UNCHANGED borrowers
        /\ round_trip' = FALSE
        /\ UNCHANGED <<gen, query, pc>>

add_borrower(name, email) ==
    LET borrower_id == generate_id(USER, keys(borrowers))
        borrower == Borrower(borrower_id, name, email, <<>>)
    IN  /\ Cardinality(DOMAIN borrowers) < MaxBorrowers
        /\ borrowers' = [bid \in DOMAIN borrowers \cup {borrower_id} |->
                            IF bid = borrower_id THEN borrower
                            ELSE borrowers[bid]]
        /\ fs' = save(books, borrowers')
        /\ Called("add_borrower", <<name, email>>, "Borrower", borrower_id)
        /\ round_trip' = FALSE
        /\ UNCHANGED <<books, gen, query, pc>>

\* checkout_book without the test of book.available
checkout_book_ignoring_available(book_id, borrower_id) ==
    /\ IF book_id \notin DOMAIN books \/ borrower_id \notin DOMAIN borrowers
       THEN /\ Called("checkout_book", <<book_id, borrower_id>>, "False", <<>>)
            /\ UNCHANGED <<books, borrowers, fs>>
       ELSE LET borrower == borrowers[borrower_id]
            IN  IF ~can_borrow(borrower)
                THEN /\ Called("checkout_book", <<book_id, borrower_id>>,
                               "False", <<>>)
                     /\ UNCHANGED <<books, borrowers, fs>>
                ELSE /\ books' = [books EXCEPT ![book_id].available = FALSE]
                     /\ borrowers' =
                            [borrowers EXCEPT
                                ![borrower_id] = borrow_book(@, book_id).self]
                     /\ fs' = save(books', borrowers')
                     /\ Called("checkout_book", <<book_id, borrower_id>>,
                               "True", <<>>)
    /\ round_trip' = FALSE
    /\ UNCHANGED <<gen, query, pc>>

checkout_book(book_id, borrower_id) ==
    /\ IF book_id \notin DOMAIN books \/ borrower_id \notin DOMAIN borrowers
       THEN /\ Called("checkout_book", <<book_id, borrower_id>>, "False", <<>>)
            /\ UNCHANGED <<books, borrowers, fs>>
       ELSE LET book == books[book_id]
                borrower == borrowers[borrower_id]
            IN  IF ~book.available \/ ~can_borrow(borrower)
                THEN /\ Called("checkout_book", <<book_id, borrower_id>>,
                               "False", <<>>)
                     /\ UNCHANGED <<books, borrowers, fs>>
                ELSE /\ books' = [books EXCEPT ![book_id].available = FALSE]
                     /\ borrowers' =
                            [borrowers EXCEPT
                                ![borrower_id] = borrow_book(@, book_id).self]
                     /\ fs' = save(books', borrowers')
                     /\ Called("checkout_book", <<book_id, borrower_id>>,
                               "True", <<>>)
    /\ round_trip' = FALSE
    /\ UNCHANGED <<gen, query, pc>>

\* return_book without the test that the borrower holds the book
return_book_ignoring_holder(book_id, borrower_id) ==
    /\ IF book_id \notin DOMAIN books \/ borrower_id \notin DOMAIN borrowers
       THEN /\ Called("return_book", <<book_id, borrower_id>>, "False", <<>>)
            /\ UNCHANGED <<books, borrowers, fs>>
       ELSE /\ books' = [books EXCEPT ![book_id].available = TRUE]
            /\ borrowers' =
                   [borrowers EXCEPT
                       ![borrower_id] = Borrower_return_book(@, book_id).self]
            /\ fs' = save(books', borrowers')
            /\ Called("return_book", <<book_id, borrower_id>>, "True", <<>>)
    /\ round_trip' = /\ call.op = "checkout_book"
                     /\ call.ret = "True"
                     /\ call.args = <<book_id, borrower_id>>
    /\ UNCHANGED <<gen, query, pc>>

return_book(book_id, borrower_id) ==
    /\ IF book_id \notin DOMAIN books \/ borrower_id \notin DOMAIN borrowers
       THEN /\ Called("return_book", <<book_id, borrower_id>>, "False", <<>>)
            /\ UNCHANGED <<books, borrowers, fs>>
       ELSE LET borrower == borrowers[borrower_id]
            IN  IF ~contains(borrower.borrowed_books, book_id)
                THEN /\ Called("return_book", <<book_id, borrower_id>>,
                               "False", <<>>)
                     /\ UNCHANGED <<books, borrowers, fs>>
                ELSE /\ books' = [books EXCEPT ![book_id].available = TRUE]
                     /\ borrowers' =
                            [borrowers EXCEPT
                                ![borrower_id] =
                                    Borrower_return_book(@, book_id).self]
                     /\ fs' = save(books', borrowers')
                     /\ Called("return_book", <<book_id, borrower_id>>,
                               "True", <<>>)
    /\ round_trip' = /\ call.op = "checkout_book"
                     /\ call.ret = "True"
                     /\ call.args = <<book_id, borrower_id>>
    /\ UNCHANGED <<gen, query, pc>>

\* Library.__init__ on the data directory as it is: a new session
Library_init ==
    /\ books' = load(fs).books
    /\ borrowers' = load(fs).borrowers
    /\ Called("__init__", <<>>, "None", <<>>)
    /\ round_trip' = FALSE
    /\ UNCHANGED <<fs, gen, query, pc>>

---------------------------------------------------------------------------
(* The library under every sequence of calls *)

BookId(n) == BOOK \o <<"_">> \o format_04d(n)
BorrowerId(n) == USER \o <<"_">> \o format_04d(n)

\* Identifiers a caller may pass: those of the registry and one unknown
BookIds == DOMAIN books \cup {BookId(MaxBooks + 1)}
BorrowerIds == DOMAIN borrowers \cup {BorrowerId(MaxBorrowers + 1)}

Next ==
    \/ \E t \in Titles, a \in Authors, g \in GenreInputs : add_book(t, a, g)
    \/ \E n \in Names, e \in Emails : add_borrower(n, e)
    \/ \E b \in BookIds, u \in BorrowerIds : checkout_book(b, u)
    \/ \E b \in BookIds, u \in BorrowerIds : return_book(b, u)
    \/ Library_init

Spec == Init /\ [][Next]_vars

---------------------------------------------------------------------------
(* Identifier assignment: generate_id on its own, and through the adds *)

\* Identifiers handed to generate_id, each with the prefix and the number it
\* is written from
IdPool ==
    {[id |-> <<"B", "O", "O", "K", "_", "0", "0", "0", "1">>,
      prefix |-> BOOK, number |-> 1],
     [id |-> <<"B", "O", "O", "K", "_", "0", "0", "0", "2">>,
      prefix |-> BOOK, number |-> 2],
     [id |-> <<"B", "O", "O", "K", "_", "0", "0", "9", "9">>,
      prefix |-> BOOK, number |-> 99],
     [id |-> <<"B", "O", "O", "K", "_", "9", "9", "9", "9">>,
      prefix |-> BOOK, number |-> 9999],
     [id |-> <<"U", "S", "E", "R", "_", "0", "0", "0", "2">>,
      prefix |-> USER, number |-> 2],
     [id |-> <<"U", "S", "E", "R", "_", "7">>,
      prefix |-> USER, number |-> 7]}

Prefixes == {BOOK, USER}

IdLists ==
    UNION {[1..n -> {e.id : e \in IdPool}] : n \in 0..MaxIds}

InitIds ==
    /\ fs = [books_file |-> Absent, borrowers_file |-> Absent]
    /\ books = load(fs).books
    /\ borrowers = load(fs).borrowers
    /\ call = NoCall
    /\ prev = [books |-> <<>>, borrowers |-> <<>>]
    /\ round_trip = FALSE
    /\ query = NoQuery
    /\ pc = "idle"
    /\ \/ gen = NoGen
       \/ \E p \in Prefixes, ids \in IdLists :
             gen = [prefix |-> p, existing_ids |-> ids, result |-> <<>>]

\* A call generate_id(prefix, existing_ids)
generate_id_call ==
    /\ gen.prefix # <<>>
    /\ gen.result = <<>>
    /\ gen' = [gen EXCEPT !.result = generate_id(gen.prefix, gen.existing_ids)]
    /\ UNCHANGED <<books, borrowers, fs, call, prev, round_trip, query, pc>>

NextIds ==
    \/ generate_id_call
    \/ /\ gen = NoGen
       /\ \E t \in Titles, a \in Authors, g \in GenreInputs : add_book(t, a, g)
    \/ /\ gen = NoGen
       /\ \E n \in Names, e \in Emails : add_borrower(n, e)

SpecIds == InitIds /\ [][NextIds]_vars

---------------------------------------------------------------------------
(* Opening the library on a data directory left by an earlier session *)

\* The books 1..n that h gives to borrower j, as a borrowed_books list
held_by(n, h, j) ==
    LET idx == SelectSeq([i \in 1..n |-> i], LAMBDA i : h[i] = j)
    IN  [k \in 1..Len(idx) |-> BookId(idx[k])]

\* The registry of n books and m borrowers in which book i is held by
\* borrower h[i], or available when h[i] = 0
made_registry(n, m, h) ==
    [books |->
        [id \in {BookId(i) : i \in 1..n} |->
            Book(id, "Dune", "Herbert", "Fiction",
                 h[CHOOSE i \in 1..n : BookId(i) = id] = 0)],
     borrowers |->
        [id \in {BorrowerId(j) : j \in 1..m} |->
            Borrower(id, "Joe", "j@x.com",
                     held_by(n, h, CHOOSE j \in 1..m : BorrowerId(j) = id))]]

\* Registries that add_book, add_borrower and checkout_book lead to
Registries ==
    {made_registry(n, m, h) :
        <<n, m, h>> \in
            {t \in UNION {{<<n, m, h>> : h \in [1..n -> 0..m]} :
                            n \in 0..MaxDocBooks, m \in 0..MaxBorrowers} :
                \A j \in 1..t[2] : Len(held_by(t[1], t[3], j)) <= MAX_BOOKS}}

\* The data directories such a registry leaves, each document there or not
DataDirs ==
    {[books_file |->
        IF has_books THEN save(r.books, r.borrowers).books_file ELSE Absent,
      borrowers_file |->
        IF has_borrowers THEN save(r.books, r.borrowers).borrowers_file
        ELSE Absent] :
        r \in Registries, has_books \in BOOLEAN, has_borrowers \in BOOLEAN}

\* Library.__init__ before its call of load
InitLoad ==
    /\ fs \in DataDirs
    /\ books = <<>>
    /\ borrowers = <<>>
    /\ call = NoCall
    /\ prev = [books |-> <<>>, borrowers |-> <<>>]
    /\ round_trip = FALSE
    /\ gen = NoGen
    /\ query = NoQuery
    /\ pc = "idle"

NextLoad == Library_init

SpecLoad == InitLoad /\ [][NextLoad]_vars

---------------------------------------------------------------------------
(* Queries *)

search_books(criteria) ==
    LET ids == keys(books)
        books_as_dicts == [i \in 1..Len(ids) |-> Book_to_dict(books[ids[i]])]
    IN  search_items(books_as_dicts, criteria)

get_available_books ==
    LET values == [i \in 1..Len(keys(books)) |-> books[keys(books)[i]]]
    IN  SelectSeq(values, LAMBDA b : b.available)

get_borrower_books(borrower_id) ==
    IF borrower_id \notin DOMAIN borrowers
    THEN <<>>
    ELSE LET borrower == borrowers[borrower_id]
             listed_books == SelectSeq(borrower.borrowed_books,
                                       LAMBDA bid : bid \in DOMAIN books)
         IN  [i \in 1..Len(listed_books) |-> books[listed_books[i]]]

get_statistics ==
    LET genres == {books[b].genre : b \in DOMAIN books}
        books_by_genre ==
            [g \in genres |->
                Cardinality({b \in DOMAIN books : books[b].genre = g})]
    IN  [total_books |-> Cardinality(DOMAIN books),
         available_books |->
            Cardinality({b \in DOMAIN books : books[b].available}),
         checked_out |->
            Cardinality({b \in DOMAIN books : ~books[b].available}),
         total_borrowers |-> Cardinality(DOMAIN borrowers),
         books_by_genre |-> books_by_genre]

\* Titles and genres of the books of a searched registry
Catalogue ==
    {<<"Dune", "Fiction">>, <<"DUNE", "Science">>,
     <<"Emma", "Fiction">>, <<"Emma", "Science">>}

\* The registry of n books in which book i has title and genre pick[i][1]
\* and is checked out, by the one borrower, iff pick[i][2]
search_registry(n, pick) ==
    LET h == [i \in 1..n |-> IF pick[i][2] THEN 1 ELSE 0]
        m == IF \E i \in 1..n : pick[i][2] THEN 1 ELSE 0
    IN  [books |->
            [id \in {BookId(i) : i \in 1..n} |->
                LET i == CHOOSE k \in 1..n : BookId(k) = id
                IN  Book(id, pick[i][1][1], "Herbert", pick[i][1][2],
                         ~pick[i][2])],
         borrowers |->
            [id \in {BorrowerId(j) : j \in 1..m} |->
                Borrower(id, "Joe", "j@x.com", held_by(n, h, 1))]]

SearchRegistries ==
    {search_registry(t[1], t[2]) :
        t \in {x \in UNION {{<<n, pick>> :
                                pick \in [1..n -> Catalogue \X BOOLEAN]} :
                            n \in 0..MaxSearchBooks} :
                Cardinality({i \in 1..x[1] : x[2][i][2]}) <= MAX_BOOKS}}

\* The values a caller may give for each field of the criteria; a book
\* record has no field isbn
CriteriaValues ==
    [title |-> {py_str("dune"), py_str("Emma"), py_bool(TRUE)},
     author |-> {py_str("HERBERT")},
     genre |-> {py_str("fiction"), py_str("Science")},
     available |-> {py_bool(TRUE), py_bool(FALSE), py_int(1), py_str("True")},
     isbn |-> {py_str("x")}]

\* The keyword arguments a caller may give: up to MaxCriteria fields
Criteria ==
    UNION {{c \in [ks -> UNION {CriteriaValues[k] : k \in ks}] :
                \A k \in ks : c[k] \in CriteriaValues[k]} :
            ks \in {x \in SUBSET DOMAIN CriteriaValues :
                        Cardinality(x) <= MaxCriteria}}

InitSearch ==
    /\ \E r \in SearchRegistries :
        /\ books = r.books
        /\ borrowers = r.borrowers
        /\ fs = save(r.books, r.borrowers)
        /\ prev = r
    /\ call = NoCall
    /\ round_trip = FALSE
    /\ gen = NoGen
    /\ query = NoQuery
    /\ pc = "idle"

\* A call search_books(**criteria); it reads the registry only, so the
\* first call of a behaviour stands for every later one
search_books_call(criteria) ==
    /\ ~query.called
    /\ query' = [criteria |-> criteria, called |-> TRUE,
                 result |-> search_books(criteria)]
    /\ UNCHANGED <<books, borrowers, fs, call, prev, round_trip, gen, pc>>

NextSearch == \E criteria \in Criteria : search_books_call(criteria)

SpecSearch == InitSearch /\ [][NextSearch]_vars

---------------------------------------------------------------------------
(* The library statement by statement: a mutating call changes the registry
   in memory, then save writes the books document, then the borrowers
   document. pc is the statement the one caller is at. *)

MaxStepBorrowers == MaxStepBooks

\* add_book up to its call of save
add_book_in_memory(title, author, genre) ==
    LET book_id == generate_id(BOOK, keys(books))
        book == Book(book_id, title, author, genre, TRUE)
    IN  /\ pc = "idle"
        /\ Cardinality(DOMAIN books) < MaxStepBooks
        /\ IF book = ValueError
           THEN /\ Called("add_book", <<title, author, genre>>, "ValueError", <<>>)
                /\ UNCHANGED <<books, pc>>
           ELSE /\ books' = [bid \in DOMAIN books \cup {book_id} |->
                                IF bid = book_id THEN book ELSE books[bid]]
                /\ Called("add_book", <<title, author, genre>>, "Book", book_id)
                /\ pc' = "save_books"
        /\ round_trip' = FALSE
        /\ UNCHANGED <<borrowers, fs, gen, query>>

\* add_borrower up to its call of save
add_borrower_in_memory(name, email) ==
    LET borrower_id == generate_id(USER, keys(borrowers))
        borrower == Borrower(borrower_id, name, email, <<>>)
    IN  /\ pc = "idle"
        /\ Cardinality(DOMAIN borrowers) < MaxStepBorrowers
        /\ borrowers' = [bid \in DOMAIN borrowers \cup {borrower_id} |->
                            IF bid = borrower_id THEN borrower
                            ELSE borrowers[bid]]
        /\ Called("add_borrower", <<name, email>>, "Borrower", borrower_id)
        /\ pc' = "save_books"
        /\ round_trip' = FALSE
        /\ UNCHANGED <<books, fs, gen, query>>

\* checkout_book up to its call of save, or to its return False
checkout_book_in_memory(book_id, borrower_id) ==
    /\ pc = "idle"
    /\ IF book_id \notin DOMAIN books \/ borrower_id \notin DOMAIN borrowers
       THEN /\ Called("checkout_book", <<book_id, borrower_id>>, "False", <<>>)
            /\ UNCHANGED <<books, borrowers, pc>>
       ELSE LET book == books[book_id]
                borrower == borrowers[borrower_id]
            IN  IF ~book.available \/ ~can_borrow(borrower)
                THEN /\ Called("checkout_book", <<book_id, borrower_id>>,
                               "False", <<>>)
                     /\ UNCHANGED <<books, borrowers, pc>>
                ELSE /\ books' = [books EXCEPT ![book_id].available = FALSE]
                     /\ borrowers' =
                            [borrowers EXCEPT
                                ![borrower_id] = borrow_book(@, book_id).self]
                     /\ Called("checkout_book", <<book_id, borrower_id>>,
                               "True", <<>>)
                     /\ pc' = "save_books"
    /\ round_trip' = FALSE
    /\ UNCHANGED <<fs, gen, query>>

\* return_book up to its call of save, or to its return False
return_book_in_memory(book_id, borrower_id) ==
    /\ pc = "idle"
    /\ IF book_id \notin DOMAIN books \/ borrower_id \notin DOMAIN borrowers
       THEN /\ Called("return_book", <<book_id, borrower_id>>, "False", <<>>)
            /\ UNCHANGED <<books, borrowers, pc>>
       ELSE LET borrower == borrowers[borrower_id]
            IN  IF ~contains(borrower.borrowed_books, book_id)
                THEN /\ Called("return_book", <<book_id, borrower_id>>,
                               "False", <<>>)
                     /\ UNCHANGED <<books, borrowers, pc>>
                ELSE /\ books' = [books EXCEPT ![book_id].available = TRUE]
                     /\ borrowers' =
                            [borrowers EXCEPT
                                ![borrower_id] =
                                    Borrower_return_book(@, book_id).self]
                     /\ Called("return_book", <<book_id, borrower_id>>,
                               "True", <<>>)
                     /\ pc' = "save_books"
    /\ round_trip' = /\ call.op = "checkout_book"
                     /\ call.ret = "True"
                     /\ call.args = <<book_id, borrower_id>>
    /\ UNCHANGED <<fs, gen, query>>

\* save writing the borrowers document where it writes the books document
save_borrowers_file_first ==
    /\ pc = "save_books"
    /\ fs' = [fs EXCEPT !.borrowers_file = save(books, borrowers).borrowers_file]
    /\ pc' = "save_borrowers"
    /\ UNCHANGED <<books, borrowers, call, prev, round_trip, gen, query>>

\* save: the books document is rewritten
save_books_file ==
    /\ pc = "save_books"
    /\ fs' = [fs EXCEPT !.books_file = save(books, borrowers).books_file]
    /\ pc' = "save_borrowers"
    /\ UNCHANGED <<books, borrowers, call, prev, round_trip, gen, query>>

\* save: the borrowers document is rewritten, and the call returns
save_borrowers_file ==
    /\ pc = "save_borrowers"
    /\ fs' = [fs EXCEPT !.borrowers_file = save(books, borrowers).borrowers_file]
    /\ pc' = "idle"
    /\ UNCHANGED <<books, borrowers, call, prev, round_trip, gen, query>>

StepBookIds == DOMAIN books \cup {BookId(MaxStepBooks + 1)}
StepBorrowerIds == DOMAIN borrowers \cup {BorrowerId(MaxStepBorrowers + 1)}

NextSteps ==
    \/ \E t \in Titles, a \in Authors, g \in GenreInputs :
        add_book_in_memory(t, a, g)
    \/ \E n \in Names, e \in Emails : add_borrower_in_memory(n, e)
    \/ \E b \in StepBookIds, u \in StepBorrowerIds :
        checkout_book_in_memory(b, u)
    \/ \E b \in StepBookIds, u \in StepBorrowerIds :
        return_book_in_memory(b, u)
    \/ save_books_file
    \/ save_borrowers_file

SpecSteps == Init /\ [][NextSteps]_vars

---------------------------------------------------------------------------
(* Vocabulary of the properties *)

\* The borrowers of brs that list book b
holders_in(brs, b) ==
    {u \in DOMAIN brs : contains(brs[u].borrowed_books, b)}

holders(b) == holders_in(borrowers, b)

\* The list without any occurrence of x
without(list, x) == SelectSeq(list, LAMBDA y : y # x)

\* The last call was op(book_id, borrower_id) and returned ret
Did(op, ret) == call.op = op /\ call.ret = ret

---------------------------------------------------------------------------
(* Lending invariants *)

\* C1: in every reachable state, for every book b, b.available is false iff
\* exactly one borrower has b.book_id in borrowed_books; an available book is
\* in no borrower's list and no book is in two borrowers' lists.
C1_AvailableIffOneHolder ==
    \A b \in DOMAIN books :
        /\ ~books[b].available <=> Cardinality(holders(books[b].book_id)) = 1
        /\ books[b].available => holders(books[b].book_id) = {}
        /\ Cardinality(holders(books[b].book_id)) <= 1

\* A failed call has just been made while one borrower holds a book, the
\* other borrower holds another, and a third book is available
C1_Witness ==
    /\ call.ret = "False"
    /\ \E b1, b2, b3 \in DOMAIN books, u1, u2 \in DOMAIN borrowers :
        /\ u1 # u2
        /\ holders(b1) = {u1}
        /\ holders(b2) = {u2}
        /\ books[b3].available

\* C2: every borrower holds at most MAX_BOOKS books, and a checkout by a
\* borrower already holding MAX_BOOKS books returns False and leaves that
\* borrower's list at size MAX_BOOKS.
C2_AtMostMaxBooks ==
    /\ \A u \in DOMAIN borrowers :
        Len(borrowers[u].borrowed_books) <= MAX_BOOKS
    /\ (/\ call.op = "checkout_book"
        /\ call.args[2] \in DOMAIN prev.borrowers
        /\ Len(prev.borrowers[call.args[2]].borrowed_books) = MAX_BOOKS)
       => /\ call.ret = "False"
          /\ Len(borrowers[call.args[2]].borrowed_books) = MAX_BOOKS

\* A borrower holding three books has just asked for a fourth, available, book
C2_Witness ==
    /\ call.op = "checkout_book"
    /\ call.args[1] \in DOMAIN prev.books
    /\ call.args[2] \in DOMAIN prev.borrowers
    /\ prev.books[call.args[1]].available
    /\ Len(prev.borrowers[call.args[2]].borrowed_books) = MAX_BOOKS

---------------------------------------------------------------------------
(* Failed calls *)

\* The cases in which checkout_book(b, u) is to fail
CheckoutFailCase(b, u) ==
    \/ b \notin DOMAIN books
    \/ u \notin DOMAIN borrowers
    \/ ~books[b].available
    \/ Len(borrowers[u].borrowed_books) >= MAX_BOOKS

\* C3: checkout_book returns False without raising, and leaves every book,
\* every borrower and both persisted documents unchanged, when the book is
\* unknown, the borrower is unknown, the book is unavailable, or the borrower
\* already holds three books.
C3_FailedCheckoutChangesNothing ==
    [][(/\ call'.op = "checkout_book"
        /\ CheckoutFailCase(call'.args[1], call'.args[2]))
       => /\ call'.ret = "False"
          /\ books' = books
          /\ borrowers' = borrowers
          /\ fs' = fs]_vars

\* A borrower with room has just asked for a book that another borrower holds
C3_Witness ==
    /\ Did("checkout_book", "False")
    /\ call.args[1] \in DOMAIN prev.books
    /\ call.args[2] \in DOMAIN prev.borrowers
    /\ ~prev.books[call.args[1]].available
    /\ Len(prev.borrowers[call.args[2]].borrowed_books) < MAX_BOOKS
    /\ call.args[2] \notin holders_in(prev.borrowers, call.args[1])

\* The cases in which return_book(b, u) is to fail
ReturnFailCase(b, u) ==
    \/ b \notin DOMAIN books
    \/ u \notin DOMAIN borrowers
    \/ ~contains(borrowers[u].borrowed_books, b)

\* C4: return_book returns False without raising, and leaves every book,
\* every borrower and both persisted documents unchanged, when the book is
\* unknown, the borrower is unknown, or the book is not in that borrower's
\* borrowed_books (also when another borrower holds it).
C4_FailedReturnChangesNothing ==
    [][(/\ call'.op = "return_book"
        /\ ReturnFailCase(call'.args[1], call'.args[2]))
       => /\ call'.ret = "False"
          /\ books' = books
          /\ borrowers' = borrowers
          /\ fs' = fs]_vars

\* A borrower has just tried to return a book that another borrower holds
C4_Witness ==
    /\ Did("return_book", "False")
    /\ call.args[1] \in DOMAIN prev.books
    /\ call.args[2] \in DOMAIN prev.borrowers
    /\ holders_in(prev.borrowers, call.args[1]) # {}
    /\ call.args[2] \notin holders_in(prev.borrowers, call.args[1])

---------------------------------------------------------------------------
(* Successful calls *)

\* C5: when the book exists, the borrower exists, the book is available and
\* the borrower holds fewer than three books, checkout_book returns True, the
\* book's available flag becomes false and book_id is added to the borrower's
\* borrowed_books; every other book, every other borrower and the other
\* fields of the book and of the borrower are unchanged.
C5_CheckoutEffect ==
    [][(/\ call'.op = "checkout_book"
        /\ ~CheckoutFailCase(call'.args[1], call'.args[2]))
       => LET b == call'.args[1]
              u == call'.args[2]
              list == borrowers'[u].borrowed_books
          IN  /\ call'.ret = "True"
              /\ books' = [books EXCEPT ![b].available = FALSE]
              /\ borrowers' = [borrowers EXCEPT ![u].borrowed_books = list]
              /\ contains(list, b)
              /\ Len(list) = Len(borrowers[u].borrowed_books) + 1
              /\ without(list, b) = borrowers[u].borrowed_books]_vars

\* A borrower who held a book has just checked out another one, while the
\* other borrower holds a book too
C5_Witness ==
    /\ Did("checkout_book", "True")
    /\ Len(borrowers[call.args[2]].borrowed_books) >= 2
    /\ \E u \in DOMAIN borrowers :
        u # call.args[2] /\ borrowers[u].borrowed_books # <<>>

\* C6: when the book exists, the borrower exists and book_id is in the
\* borrower's borrowed_books, return_book returns True, book_id is no longer
\* in the borrower's borrowed_books and the book's available flag is true;
\* every other book and every other borrower are unchanged.
C6_ReturnEffect ==
    [][(/\ call'.op = "return_book"
        /\ ~ReturnFailCase(call'.args[1], call'.args[2]))
       => LET b == call'.args[1]
              u == call'.args[2]
              list == borrowers'[u].borrowed_books
          IN  /\ call'.ret = "True"
              /\ books' = [books EXCEPT ![b].available = TRUE]
              /\ borrowers' = [borrowers EXCEPT ![u].borrowed_books = list]
              /\ ~contains(list, b)
              /\ list = without(borrowers[u].borrowed_books, b)]_vars

\* A borrower has just returned the first of the books they held and keeps
\* two, while the other borrower holds a book too
C6_Witness ==
    /\ Did("return_book", "True")
    /\ Len(borrowers[call.args[2]].borrowed_books) = 2
    /\ prev.borrowers[call.args[2]].borrowed_books[1] = call.args[1]
    /\ \E u \in DOMAIN borrowers :
        u # call.args[2] /\ borrowers[u].borrowed_books # <<>>

---------------------------------------------------------------------------
(* The life of a book *)

\* C7: a book changes from Available to CheckedOut only in a step that is a
\* successful checkout_book of that book, and from CheckedOut to Available
\* only in a step that is a successful return_book naming the borrower who
\* holds it; the holder of a book never changes from one borrower directly
\* to another.
C7_BookTransitions ==
    [][\A b \in DOMAIN books :
        /\ (books[b].available /\ ~books'[b].available)
           => /\ call'.op = "checkout_book"
              /\ call'.ret = "True"
              /\ call'.args[1] = b
        /\ (~books[b].available /\ books'[b].available)
           => /\ call'.op = "return_book"
              /\ call'.ret = "True"
              /\ call'.args[1] = b
              /\ holders(b) = {call'.args[2]}
        /\ (holders(b) # {} /\ holders_in(borrowers', b) # {})
           => holders_in(borrowers', b) = holders(b)]_vars

\* A book held by one of two borrowers has just been returned by its holder
\* and is available again, the other borrower holding a book too
C7_Witness ==
    /\ Did("return_book", "True")
    /\ ~prev.books[call.args[1]].available
    /\ books[call.args[1]].available
    /\ holders_in(prev.borrowers, call.args[1]) = {call.args[2]}
    /\ \E u \in DOMAIN borrowers : u # call.args[2] /\ \E b \in DOMAIN books :
        holders(b) = {u}

\* C8: a successful checkout_book(b, u) immediately followed by
\* return_book(b, u) returns True and restores the registry to the state
\* before the checkout: the book is available again, the borrower's
\* borrowed_books is the same list in the same order, and all other entities
\* are untouched.
C8_CheckoutThenReturnRestores ==
    [][(/\ Did("checkout_book", "True")
        /\ call'.op = "return_book"
        /\ call'.args = call.args)
       => /\ call'.ret = "True"
          /\ books' = prev.books
          /\ borrowers' = prev.borrowers
          /\ books'[call.args[1]].available]_vars

\* A borrower holding two books has just checked out a third and returned it
\* at once
C8_Witness ==
    /\ round_trip
    /\ Did("return_book", "True")
    /\ Len(borrowers[call.args[2]].borrowed_books) = 2
    /\ books[call.args[1]].available

---------------------------------------------------------------------------
(* Persistence *)

\* The last call is a completed mutating operation
Mutated ==
    \/ Did("add_book", "Book")
    \/ Did("add_borrower", "Borrower")
    \/ Did("checkout_book", "True")
    \/ Did("return_book", "True")

\* C9: after every completed mutating operation both persisted documents
\* have been rewritten in full and hold exactly the in-memory registry, so
\* that a load from them yields the same books (id, title, author, genre,
\* available) and the same borrowers (id, name, email, borrowed_books).
C9_DocumentsHoldRegistry ==
    Mutated =>
        /\ fs.books_file.exists
        /\ fs.borrowers_file.exists
        /\ DOMAIN fs.books_file.data = DOMAIN books
        /\ \A b \in DOMAIN books :
            LET d == fs.books_file.data[b]
            IN  /\ d.book_id = books[b].book_id
                /\ d.title = books[b].title
                /\ d.author = books[b].author
                /\ d.genre = books[b].genre
                /\ d.available = books[b].available
        /\ DOMAIN fs.borrowers_file.data = DOMAIN borrowers
        /\ \A u \in DOMAIN borrowers :
            LET d == fs.borrowers_file.data[u]
            IN  /\ d.borrower_id = borrowers[u].borrower_id
                /\ d.name = borrowers[u].name
                /\ d.email = borrowers[u].email
                /\ d.borrowed_books = borrowers[u].borrowed_books
        /\ load(fs).books = books
        /\ load(fs).borrowers = borrowers

\* A book has just been returned while another stays checked out: both
\* documents hold an unavailable book and a non-empty borrowed_books
C9_Witness ==
    /\ Did("return_book", "True")
    /\ \E b \in DOMAIN fs.books_file.data : ~fs.books_file.data[b].available
    /\ \E u \in DOMAIN fs.borrowers_file.data :
        fs.borrowers_file.data[u].borrowed_books # <<>>

---------------------------------------------------------------------------
(* Identifiers *)

\* The four-digit (or longer) writing of the numbers that occur as results
Written ==
    (1 :> <<"0", "0", "0", "1">>) @@ (2 :> <<"0", "0", "0", "2">>) @@
    (3 :> <<"0", "0", "0", "3">>) @@ (8 :> <<"0", "0", "0", "8">>) @@
    (100 :> <<"0", "1", "0", "0">>) @@ (10000 :> <<"1", "0", "0", "0", "0">>)

\* The entries of IdPool that are in the list
listed(ids) == {e \in IdPool : \E i \in 1..Len(ids) : ids[i] = e.id}

\* The largest number of a non-empty set of entries
largest(es) == CHOOSE n \in {e.number : e \in es} : \A e \in es : e.number <= n

\* From an empty registry the first add_book yields BOOK_0001, the second
\* BOOK_0002, and the first add_borrower USER_0001
FirstIdentifiers ==
    /\ (Did("add_book", "Book") /\ Cardinality(DOMAIN prev.books) = 0)
       => call.id = <<"B", "O", "O", "K", "_", "0", "0", "0", "1">>
    /\ (Did("add_book", "Book") /\ Cardinality(DOMAIN prev.books) = 1)
       => call.id = <<"B", "O", "O", "K", "_", "0", "0", "0", "2">>
    /\ (Did("add_borrower", "Borrower")
        /\ Cardinality(DOMAIN prev.borrowers) = 0)
       => call.id = <<"U", "S", "E", "R", "_", "0", "0", "0", "1">>

\* C10 as stated: generate_id(prefix, existing_ids) returns prefix, '_' and
\* the number one more than the maximum numeric suffix among the existing IDs
\* of that prefix, or prefix_0001 when no such ID exists; the first add_book
\* yields BOOK_0001, the second BOOK_0002, the first add_borrower USER_0001.
C10_AsStated ==
    /\ gen.result # <<>>
       => LET same == {e \in listed(gen.existing_ids) : e.prefix = gen.prefix}
          IN  gen.result =
                gen.prefix \o <<"_">> \o
                    (IF same = {} THEN Written[1]
                     ELSE Written[largest(same) + 1])
    /\ FirstIdentifiers

\* C10 (amended): generate_id(prefix, existing_ids) returns prefix, '_' and
\* the number one more than the maximum numeric suffix among all the IDs of
\* existing_ids, whatever their prefix, or prefix_0001 when existing_ids is
\* empty; the first add_book yields BOOK_0001, the second BOOK_0002, the
\* first add_borrower USER_0001.
C10_NextAfterLargestListed ==
    /\ gen.result # <<>>
       => LET all == listed(gen.existing_ids)
          IN  gen.result =
                gen.prefix \o <<"_">> \o
                    (IF all = {} THEN Written[1]
                     ELSE Written[largest(all) + 1])
    /\ FirstIdentifiers

\* generate_id("BOOK", [...]) has returned for a list that holds a USER
\* identifier with a larger number than any BOOK identifier in it
C10_Witness ==
    /\ gen.result # <<>>
    /\ gen.prefix = BOOK
    /\ \E e \in listed(gen.existing_ids) :
        /\ e.prefix = USER
        /\ \A f \in listed(gen.existing_ids) : f.number <= e.number
    /\ \E e \in listed(gen.existing_ids) : e.prefix = BOOK

---------------------------------------------------------------------------
(* The life of the entities *)

\* C11: no book or borrower is ever removed or replaced: each add creates an
\* entry under an identifier that was not a key of its collection, the sets
\* of book ids and borrower ids only grow, and an entity's id, title, author,
\* genre, name and email never change; available and borrowed_books change
\* only in checkout_book and return_book.
C11_EntitiesOnlyAdded ==
    /\ DOMAIN prev.books \subseteq DOMAIN books
    /\ DOMAIN prev.borrowers \subseteq DOMAIN borrowers
    /\ Did("add_book", "Book")
       => /\ call.id \notin DOMAIN prev.books
          /\ DOMAIN books = DOMAIN prev.books \cup {call.id}
          /\ books[call.id].book_id = call.id
    /\ Did("add_borrower", "Borrower")
       => /\ call.id \notin DOMAIN prev.borrowers
          /\ DOMAIN borrowers = DOMAIN prev.borrowers \cup {call.id}
          /\ borrowers[call.id].borrower_id = call.id
    /\ \A b \in DOMAIN prev.books :
        /\ books[b].book_id = prev.books[b].book_id
        /\ books[b].title = prev.books[b].title
        /\ books[b].author = prev.books[b].author
        /\ books[b].genre = prev.books[b].genre
        /\ books[b].available # prev.books[b].available
           => call.op \in {"checkout_book", "return_book"}
    /\ \A u \in DOMAIN prev.borrowers :
        /\ borrowers[u].borrower_id = prev.borrowers[u].borrower_id
        /\ borrowers[u].name = prev.borrowers[u].name
        /\ borrowers[u].email = prev.borrowers[u].email
        /\ borrowers[u].borrowed_books # prev.borrowers[u].borrowed_books
           => call.op \in {"checkout_book", "return_book"}

\* A book has just been added to a registry that held a checked-out book
C11_Witness ==
    /\ Did("add_book", "Book")
    /\ \E b \in DOMAIN prev.books : ~prev.books[b].available
    /\ \E u \in DOMAIN prev.borrowers : prev.borrowers[u].borrowed_books # <<>>

\* C12: add_book with a genre outside GENRES raises at once and changes
\* nothing: no book is added, the documents are not rewritten, no
\* identifier is consumed (the next valid add_book gets the identifier the
\* failed call would have got), and the genre is never coerced to a valid
\* one.
C12_InvalidGenreChangesNothing ==
    [][/\ (call'.op = "add_book" /\ call'.args[3] \notin GENRES)
          => /\ call'.ret = "ValueError"
             /\ books' = books
             /\ borrowers' = borrowers
             /\ fs' = fs
       /\ (call'.op = "add_book" /\ call'.ret = "Book")
          => /\ call'.args[3] \in GENRES
             /\ books'[call'.id].genre = call'.args[3]
             /\ call'.id = BookId(Cardinality(DOMAIN books) + 1)
             /\ Did("add_book", "ValueError")
                => call'.id = BookId(Cardinality(DOMAIN prev.books) + 1)]_vars

\* add_book has just been refused a genre, in a registry with a checked-out
\* book
C12_Witness ==
    /\ Did("add_book", "ValueError")
    /\ call.args[3] \notin GENRES
    /\ \E b \in DOMAIN books : ~books[b].available

---------------------------------------------------------------------------
(* Loading *)

\* C13: on load, an absent books document gives an empty book collection
\* and an absent borrowers document an empty borrower collection, each
\* independently and without an error, the other collection still being
\* loaded from its own document.
C13_AbsentDocumentLoadsEmpty ==
    call.op = "__init__" =>
        /\ call.ret = "None"
        /\ ~fs.books_file.exists => books = <<>>
        /\ ~fs.borrowers_file.exists => borrowers = <<>>
        /\ fs.books_file.exists =>
            /\ DOMAIN books = DOMAIN fs.books_file.data
            /\ \A b \in DOMAIN books :
                /\ books[b].book_id = fs.books_file.data[b].book_id
                /\ books[b].title = fs.books_file.data[b].title
                /\ books[b].author = fs.books_file.data[b].author
                /\ books[b].genre = fs.books_file.data[b].genre
                /\ books[b].available = fs.books_file.data[b].available
        /\ fs.borrowers_file.exists =>
            /\ DOMAIN borrowers = DOMAIN fs.borrowers_file.data
            /\ \A u \in DOMAIN borrowers :
                /\ borrowers[u].borrower_id
                    = fs.borrowers_file.data[u].borrower_id
                /\ borrowers[u].name = fs.borrowers_file.data[u].name
                /\ borrowers[u].email = fs.borrowers_file.data[u].email
                /\ borrowers[u].borrowed_books
                    = fs.borrowers_file.data[u].borrowed_books

\* The library has been opened where the books document is absent and the
\* borrowers document holds a borrower with books
C13_Witness ==
    /\ call.op = "__init__"
    /\ ~fs.books_file.exists
    /\ fs.borrowers_file.exists
    /\ books = <<>>
    /\ \E u \in DOMAIN borrowers : borrowers[u].borrowed_books # <<>>

---------------------------------------------------------------------------
(* Search *)

\* Strings that differ at most in the case of their letters
SameIgnoringCase(a, b) ==
    \/ a = b
    \/ \E class \in {{"Dune", "DUNE", "dune"}, {"Emma", "emma"},
                     {"Herbert", "HERBERT"}, {"Fiction", "fiction"}} :
        {a, b} \subseteq class

\* The constraint field = value holds of book b
Satisfies(b, field, value) ==
    CASE field \in {"title", "author", "genre"} ->
            /\ value.type = "str"
            /\ SameIgnoringCase(books[b][field], value.v)
      [] field = "available" ->
            \/ value = py_bool(books[b].available)
            \/ value = py_int(IF books[b].available THEN 1 ELSE 0)
      [] OTHER -> FALSE

\* The books that satisfy every constraint of the criteria
Matching(criteria) ==
    {b \in DOMAIN books :
        \A field \in DOMAIN criteria : Satisfies(b, field, criteria[field])}

\* C14: search_books(**criteria) returns exactly the books for which every
\* field=value constraint matches (strings compared case-insensitively,
\* other values by equality); a constraint on a field that a book record does
\* not have makes the book not match; with no match or an empty registry
\* the result is an empty list.
C14_SearchReturnsMatchingBooks ==
    query.called =>
        /\ {query.result[i] : i \in 1..Len(query.result)}
            = {Book_to_dict(books[b]) : b \in Matching(query.criteria)}
        /\ Len(query.result) = Cardinality(Matching(query.criteria))
        /\ Matching(query.criteria) = {} => query.result = <<>>

\* A search for title "dune" and available 1 among a checked-out "Dune"
\* and an available "DUNE" has returned the "DUNE" alone
C14_Witness ==
    /\ query.called
    /\ DOMAIN query.criteria = {"title", "available"}
    /\ query.criteria.title = py_str("dune")
    /\ query.criteria.available = py_int(1)
    /\ Len(query.result) = 1
    /\ query.result[1].title = "DUNE"
    /\ \E b \in DOMAIN books : books[b].title = "Dune" /\ ~books[b].available

---------------------------------------------------------------------------
(* Persistence inside save *)

\* In the registry r a book is unavailable iff exactly one borrower lists it
paired(r) ==
    \A b \in DOMAIN r.books :
        ~r.books[b].available <=> Cardinality(holders_in(r.borrowers, b)) = 1

\* C15 as stated: at every point of execution, also between the two writes
\* of save, the persisted documents load to a registry in which a book is
\* unavailable iff exactly one borrower lists it.
C15_AsStated == paired(load(fs))

\* C15: whenever no call is executing, the persisted documents load to a
\* registry in which a book is unavailable iff exactly one borrower lists
\* it; between the two writes of the save of a checkout or a return they do
\* not: the books document has the book's new availability while the
\* borrowers document has the borrower's old list.
C15_PairedBetweenCalls ==
    /\ pc = "idle" => paired(load(fs)) /\ load(fs) = registry
    /\ (pc = "save_borrowers" /\ Did("checkout_book", "True")) =>
        /\ ~load(fs).books[call.args[1]].available
        /\ holders_in(load(fs).borrowers, call.args[1]) = {}
    /\ (pc = "save_borrowers" /\ Did("return_book", "True")) =>
        /\ load(fs).books[call.args[1]].available
        /\ holders_in(load(fs).borrowers, call.args[1]) = {call.args[2]}

\* A checkout has returned after its save, with another book still out
C15_Witness ==
    /\ pc = "idle"
    /\ Did("checkout_book", "True")
    /\ \E b \in DOMAIN load(fs).books :
        /\ b # call.args[1]
        /\ ~load(fs).books[b].available
    /\ ~load(fs).books[call.args[1]].available

---------------------------------------------------------------------------
(* Queries on the lending state *)

\* C16: every borrower's borrowed_books holds no identifier twice and only
\* keys of the book collection, and get_borrower_books returns exactly one
\* Book per entry of the list, the book of that entry.
C16_BorrowedBooksIsSetOfBooks ==
    \A u \in DOMAIN borrowers :
        LET list == borrowers[u].borrowed_books
            got == get_borrower_books(u)
        IN  /\ \A i, j \in 1..Len(list) : list[i] = list[j] => i = j
            /\ \A i \in 1..Len(list) : list[i] \in DOMAIN books
            /\ Len(got) = Len(list)
            /\ \A i \in 1..Len(list) :
                /\ got[i] = books[list[i]]
                /\ got[i].book_id = list[i]

\* A borrower holds MAX_BOOKS books after a return and further checkouts
C16_Witness ==
    /\ Did("checkout_book", "True")
    /\ \E u \in DOMAIN borrowers :
        /\ Len(borrowers[u].borrowed_books) = MAX_BOOKS
        /\ Len(get_borrower_books(u)) = MAX_BOOKS
        /\ borrowers[u].borrowed_books[1] # BookId(1)

\* The identifiers of the books of a list of Book
ids_of(list) == {list[i].book_id : i \in 1..Len(list)}

\* The number of entries of the borrowed_books of the borrowers in S
RECURSIVE entries(_)
entries(S) ==
    IF S = {}
    THEN 0
    ELSE LET u == CHOOSE x \in S : TRUE
         IN  Len(borrowers[u].borrowed_books) + entries(S \ {u})

\* C18: get_statistics reports available_books + checked_out = total_books
\* and checked_out equal to the number of entries of all borrowed_books; the
\* books of get_available_books and of get_borrower_books of every borrower
\* are pairwise disjoint and together are the book collection.
C18_QueriesAgreeWithLending ==
    LET stats == get_statistics
        available == ids_of(get_available_books)
        held(u) == ids_of(get_borrower_books(u))
    IN  /\ stats.available_books + stats.checked_out = stats.total_books
        /\ stats.total_books = Cardinality(DOMAIN books)
        /\ stats.checked_out = entries(DOMAIN borrowers)
        /\ stats.available_books = Len(get_available_books)
        /\ available \cup UNION {held(u) : u \in DOMAIN borrowers}
            = DOMAIN books
        /\ \A u \in DOMAIN borrowers : available \cap held(u) = {}
        /\ \A u, v \in DOMAIN borrowers : u # v => held(u) \cap held(v) = {}
        /\ Len(get_available_books) + entries(DOMAIN borrowers)
            = Cardinality(DOMAIN books)

\* Two borrowers hold books while another book is available
C18_Witness ==
    /\ get_statistics.available_books >= 1
    /\ get_statistics.checked_out >= 2
    /\ \E u, v \in DOMAIN borrowers :
        /\ u # v
        /\ get_borrower_books(u) # <<>>
        /\ get_borrower_books(v) # <<>>

---------------------------------------------------------------------------
(* The form of the identifiers *)

Digits == {"0", "1", "2", "3", "4", "5", "6", "7", "8", "9"}

\* The part of the identifier after prefix and '_'
suffix(id, prefix) == SubSeq(id, Len(prefix) + 2, Len(id))

\* id is prefix, '_' and then decimal digits only, at least one
WellFormed(id, prefix) ==
    /\ Len(id) >= Len(prefix) + 2
    /\ SubSeq(id, 1, Len(prefix)) = prefix
    /\ id[Len(prefix) + 1] = "_"
    /\ \A i \in 1..Len(suffix(id, prefix)) : suffix(id, prefix)[i] \in Digits

\* C17 as stated: every identifier returned by generate_id is PREFIX_
\* followed by exactly four decimal digits, for every list of existing
\* identifiers, also when the maximum existing suffix is 9999.
C17_AsStated ==
    gen.result # <<>> =>
        /\ WellFormed(gen.result, gen.prefix)
        /\ Len(suffix(gen.result, gen.prefix)) = 4

\* C17: every identifier returned by generate_id is PREFIX_ followed by
\* decimal digits, at least four of them: exactly four while the maximum
\* existing suffix is at most 9998 or the list is empty, and the five digits
\* 10000 when it is 9999.
C17_FourDigitsUpTo9999 ==
    gen.result # <<>> =>
        LET all == listed(gen.existing_ids)
            digits == suffix(gen.result, gen.prefix)
        IN  /\ WellFormed(gen.result, gen.prefix)
            /\ Len(digits) >= 4
            /\ (all = {} \/ largest(all) <= 9998) <=> Len(digits) = 4
            /\ (all # {} /\ largest(all) = 9999) <=>
                    digits = <<"1", "0", "0", "0", "0">>

\* generate_id has returned for a list whose maximum suffix is 9999, and for
\* it the identifier has more than four digits
C17_Witness ==
    /\ gen.result # <<>>
    /\ \E e \in listed(gen.existing_ids) : e.number = 9999
    /\ \E e \in listed(gen.existing_ids) : e.number = 2
    /\ Len(gen.result) = Len(gen.prefix) + 6

====
